---- MODULE Spec2Model ----
(***************************************************************************)
(* Address de-duplication service (Backend - comparação direta/app.py).    *)
(*                                                                         *)
(* Text values are sequences of one-character strings, so that the         *)
(* normalizer's regular expressions are computed character by character.   *)
(* Column names are TLA+ strings.  A missing cell (None / NaN) is the      *)
(* value None.                                                             *)
(***************************************************************************)
EXTENDS Integers, Sequences, FiniteSets, TLC

VARIABLES
    redis_client,   \* TRUE iff the Redis client was created at startup (app.py:23-30)
    store,          \* the Redis keyspace: task id -> stored CSV
    issued,         \* number of uuid4 values drawn so far
    expired,        \* task ids whose time-to-live has elapsed
    run,            \* the locals of the last /api/analyze request
    dl,             \* the locals of the last /api/download_processed request
    resp,           \* the last HTTP response
    s_val,          \* normalizer harness: the current string
    s_prev,         \* normalizer harness: the string before the last call
    applied,        \* normalizer harness: number of calls made
    analyzing,      \* concurrent service: the locals of each /api/analyze request
    downloading     \* concurrent service: the locals of each download request

vars == <<redis_client, store, issued, expired, run, dl, resp, s_val, s_prev, applied,
          analyzing, downloading>>

(***************************************************************************)
(* Bounds of the model.                                                    *)
(***************************************************************************)
MaxTasks == 2        \* uuids drawn in one behaviour of Spec
MaxRows == 4         \* data rows of an enumerated sheet
MaxPairs == 6        \* duplicate pairs of a generated many-group sheet
MaxLen == 4          \* length of an enumerated normalizer input

(***************************************************************************)
(* Program constants.                                                      *)
(***************************************************************************)
GROUP_COLORS ==
    << "group-color-1", "group-color-2", "group-color-3",
       "group-color-4", "group-color-5" >>

PREVIEW_DATA_ROWS == 200

None == << "<None>" >>

(***************************************************************************)
(* Generic sequence helpers.                                               *)
(***************************************************************************)
Range(f) == { f[i] : i \in DOMAIN f }

RECURSIVE Flatten(_)
Flatten(ss) == IF ss = << >> THEN << >> ELSE Head(ss) \o Flatten(Tail(ss))

RECURSIVE JoinWith(_, _)
JoinWith(ss, sep) ==
    IF ss = << >> THEN << >>
    ELSE IF Len(ss) = 1 THEN ss[1]
    ELSE ss[1] \o sep \o JoinWith(Tail(ss), sep)

\* F applied to the value of v, v being evaluated once
With(v, F(_)) == CHOOSE r \in { F(x) : x \in { v } } : TRUE

\* the indices 1..n satisfying P, ascending
SelectIdx(n, P(_)) == SelectSeq([i \in 1..n |-> i], P)

(***************************************************************************)
(* Characters: Python's \w and \s classes, str.lower and unidecode on the  *)
(* characters the model uses.                                              *)
(***************************************************************************)
Letters == { "a", "b", "c", "d", "e", "g", "i", "l", "m", "n", "o", "p", "q",
             "r", "s", "t", "u", "v", "x" }
Digits == { "0", "1", "2", "3", "4", "5", "6", "7", "8", "9" }
UpperCase == { "R", "A", "S" }
Accented == { "ã", "ú" }

IsWordChar(c) == c \in Letters \cup Digits \cup UpperCase \cup Accented \cup {"_"}
IsSpaceChar(c) == c \in { " ", "\t" }

LowerChar(c) ==
    CASE c = "R" -> "r"
      [] c = "A" -> "a"
      [] c = "S" -> "s"
      [] OTHER -> c

UnidecodeChar(c) ==
    CASE c = "ã" -> << "a" >>
      [] c = "ú" -> << "u" >>
      [] c = "°" -> << "d", "e", "g" >>
      [] OTHER -> << c >>

lower(s) == [i \in 1..Len(s) |-> LowerChar(s[i])]
unidecode(s) == Flatten([i \in 1..Len(s) |-> UnidecodeChar(s[i])])

(***************************************************************************)
(* re.sub for the patterns of normalize_address_val.  A pattern is a       *)
(* literal preceded by \b, followed by \b when wb is TRUE.                  *)
(***************************************************************************)
Word(lit) == [lit |-> lit, wb |-> TRUE]
Dotted(lit) == [lit |-> lit, wb |-> FALSE]

\* \b at position p: between s[p-1] and s[p]
Boundary(s, p) ==
    LET before == p > 1 /\ IsWordChar(s[p - 1])
        after == p <= Len(s) /\ IsWordChar(s[p])
    IN before # after

MatchAt(s, p, pat) ==
    /\ p + Len(pat.lit) - 1 <= Len(s)
    /\ Boundary(s, p)
    /\ \A k \in 1..Len(pat.lit) : s[p + k - 1] = pat.lit[k]
    /\ pat.wb => Boundary(s, p + Len(pat.lit))

\* length of the first alternative matching at p, 0 if none
MatchLen(s, p, alts) ==
    LET hits == SelectIdx(Len(alts), LAMBDA a : MatchAt(s, p, alts[a]))
    IN IF hits = << >> THEN 0 ELSE Len(alts[hits[1]].lit)

ReSub(alts, repl, s) ==
    LET RECURSIVE scan(_)
        scan(p) ==
            IF p > Len(s) THEN << >>
            ELSE LET n == MatchLen(s, p, alts)
                 IN IF n > 0 THEN repl \o scan(p + n)
                    ELSE << s[p] >> \o scan(p + 1)
    IN scan(1)

\* re.sub(r'[^\w\s]', '', s)
StripPunct(s) == SelectSeq(s, LAMBDA c : IsWordChar(c) \/ IsSpaceChar(c))

\* str.strip()
RECURSIVE LStrip(_)
LStrip(s) == IF s # << >> /\ IsSpaceChar(Head(s)) THEN LStrip(Tail(s)) ELSE s

RECURSIVE RStrip(_)
RStrip(s) ==
    IF s # << >> /\ IsSpaceChar(s[Len(s)]) THEN RStrip(SubSeq(s, 1, Len(s) - 1)) ELSE s

Strip(s) == RStrip(LStrip(s))

\* re.sub(r'\s+', ' ', s)
CollapseSpaces(s) ==
    LET RECURSIVE scan(_)
        scan(p) ==
            IF p > Len(s) THEN << >>
            ELSE IF IsSpaceChar(s[p])
                 THEN IF p > 1 /\ IsSpaceChar(s[p - 1]) THEN scan(p + 1)
                      ELSE << " " >> \o scan(p + 1)
                 ELSE << s[p] >> \o scan(p + 1)
    IN scan(1)

AbbreviationRules ==
    << [alts |-> << Word(<<"r","u","a">>), Dotted(<<"r",".">>) >>,
        repl |-> <<"r">>],
       [alts |-> << Word(<<"a","v","e","n","i","d","a">>), Dotted(<<"a","v",".">>) >>,
        repl |-> <<"a","v">>],
       [alts |-> << Word(<<"n","u","m","e","r","o">>), Word(<<"n","°">>),
                    Dotted(<<"n",".">>) >>,
        repl |-> <<"n">>],
       [alts |-> << Word(<<"a","p","a","r","t","a","m","e","n","t","o">>),
                    Word(<<"a","p","t","o">>), Dotted(<<"a","p",".">>) >>,
        repl |-> <<"a","p">>],
       [alts |-> << Word(<<"l","o","t","e">>) >>, repl |-> <<"l","t">>],
       [alts |-> << Word(<<"q","u","a","d","r","a">>) >>, repl |-> <<"q","d">>],
       [alts |-> << Word(<<"b","l","o","c","o">>) >>, repl |-> <<"b","l">>],
       [alts |-> << Word(<<"c","a","s","a">>) >>, repl |-> <<"c","s">>],
       [alts |-> << Word(<<"s","a","o">>) >>, repl |-> <<"s">>] >>

ApplyRules(s) ==
    LET RECURSIVE go(_, _)
        go(k, t) == IF k > Len(AbbreviationRules) THEN t
                    ELSE go(k + 1, ReSub(AbbreviationRules[k].alts,
                                         AbbreviationRules[k].repl, t))
    IN go(1, s)

normalize_address_val(value) ==
    IF value = None \/ value = << >> THEN << >>
    ELSE CollapseSpaces(Strip(StripPunct(ApplyRules(unidecode(lower(value))))))

(***************************************************************************)
(* Schema reconciliation.                                                  *)
(***************************************************************************)
POSSIBLE_COLUMN_MAPPINGS ==
    << [key |-> "Proposta",
        variations |-> << "proposta", "proposal", "numero_proposta",
                          "proposal_number", "nr_proposta" >>],
       [key |-> "Logradouro",
        variations |-> << "logradouro", "endereco", "rua", "enderecamento", "street" >>],
       [key |-> "Número",
        variations |-> << "numero", "num", "number", "nr", "no" >>],
       [key |-> "Complemento",
        variations |-> << "complemento", "compl", "complement", "apto",
                          "apartamento", "apartment" >>],
       [key |-> "Bairro",
        variations |-> << "bairro", "district", "neighborhood" >>],
       [key |-> "Cidade",
        variations |-> << "cidade", "city", "municipio", "town" >>],
       [key |-> "UF",
        variations |-> << "uf", "estado", "state", "sigla_uf" >>],
       [key |-> "CEP",
        variations |-> << "cep", "zip", "zipcode", "postal", "postal_code" >>],
       [key |-> "Cliente",
        variations |-> << "cliente", "customer", "nome", "name", "nome_cliente",
                          "customer_name" >>],
       [key |-> "Tipo de Pessoa",
        variations |-> << "tipo_pessoa", "person_type", "tipo" >>],
       [key |-> "CPF/CNPJ",
        variations |-> << "cpf", "cnpj", "cpf_cnpj", "documento", "document", "id" >>] >>

OUTPUT_FIELD_ORDER ==
    << "Proposta", "Logradouro", "Bairro", "Número", "Complemento", "Cidade", "UF",
       "CEP", "Cliente", "Tipo de Pessoa", "CPF/CNPJ" >>

\* str(col).lower().replace(" ", "") on the column names the model uses; every
\* other name of the model is lower-case without spaces already
LowerStripped(col) ==
    CASE col = "Proposta" -> "proposta"
      [] col = "Logradouro" -> "logradouro"
      [] col = "LOGRADOURO" -> "logradouro"
      [] col = "Número" -> "número"
      [] col = "Complemento" -> "complemento"
      [] col = "Bairro" -> "bairro"
      [] col = "Cidade" -> "cidade"
      [] col = "UF" -> "uf"
      [] col = "CEP" -> "cep"
      [] col = "Cliente" -> "cliente"
      [] col = "Tipo de Pessoa" -> "tipodepessoa"
      [] col = "CPF/CNPJ" -> "cpf/cnpj"
      [] col = "Endereco" -> "endereco"
      [] col = "Num" -> "num"
      [] col = "Municipio" -> "municipio"
      [] col = "Estado" -> "estado"
      [] col = "Zip Code" -> "zipcode"
      [] col = "Nome Cliente" -> "nomecliente"
      [] col = "groupColor" -> "groupcolor"
      [] OTHER -> col

NoCol == ""

\* the dict comprehension of get_col_mappings_from_df: the last column with a
\* given normalized name wins
ColLookup(df_columns, norm) ==
    LET hits == SelectIdx(Len(df_columns),
                          LAMBDA i : LowerStripped(df_columns[i]) = norm)
    IN IF hits = << >> THEN NoCol ELSE df_columns[hits[Len(hits)]]

FirstVariation(df_columns, variations) ==
    LET hits == SelectIdx(Len(variations),
                          LAMBDA v : ColLookup(df_columns, LowerStripped(variations[v])) # NoCol)
    IN IF hits = << >> THEN NoCol
       ELSE ColLookup(df_columns, LowerStripped(variations[hits[1]]))

FoundCol(df_columns, entry) ==
    LET exact == ColLookup(df_columns, LowerStripped(entry.key))
    IN IF exact # NoCol THEN exact ELSE FirstVariation(df_columns, entry.variations)

StandardKeys == { POSSIBLE_COLUMN_MAPPINGS[k].key : k \in DOMAIN POSSIBLE_COLUMN_MAPPINGS }

EntryOf(key) ==
    POSSIBLE_COLUMN_MAPPINGS[CHOOSE k \in DOMAIN POSSIBLE_COLUMN_MAPPINGS :
                                 POSSIBLE_COLUMN_MAPPINGS[k].key = key]

get_col_mappings_from_df(df_columns) ==
    LET mapped == { key \in StandardKeys : FoundCol(df_columns, EntryOf(key)) # NoCol }
    IN [key \in mapped |-> FoundCol(df_columns, EntryOf(key))]

(***************************************************************************)
(* Row address builder.  A row is a function from column names to cells.   *)
(***************************************************************************)
address_fields ==
    << "Logradouro", "Número", "Complemento", "Bairro", "Cidade", "UF", "CEP" >>

required_address_cols ==
    << "Logradouro", "Número", "Bairro", "Cidade", "UF", "CEP" >>

FieldComponent(row, col_mappings, field_key) ==
    IF /\ field_key \in DOMAIN col_mappings
       /\ col_mappings[field_key] \in DOMAIN row
       /\ row[col_mappings[field_key]] # None
    THEN LET val == normalize_address_val(row[col_mappings[field_key]])
         IN IF val # << >> THEN << val >> ELSE << >>
    ELSE << >>

concatenate_address_for_row(row, col_mappings) ==
    JoinWith(Flatten([k \in 1..Len(address_fields) |->
                         FieldComponent(row, col_mappings, address_fields[k])]),
             << " " >>)

(***************************************************************************)
(* Duplicate grouping.  A DataFrame is [columns, rows]; the row at         *)
(* position i (1-based) has the index label i - 1 (original_index_col).    *)
(***************************************************************************)
\* code-point order of the characters a normalized string can hold
AsciiOrder ==
    << " ", "0", "1", "2", "3", "4", "5", "6", "7", "8", "9", "_",
       "a", "b", "c", "d", "e", "g", "i", "l", "m", "n", "o", "p", "q",
       "r", "s", "t", "u", "v", "x" >>

CharOrd(c) == CHOOSE k \in DOMAIN AsciiOrder : AsciiOrder[k] = c

\* Python's str < str
RECURSIVE StrLess(_, _)
StrLess(a, b) ==
    IF b = << >> THEN FALSE
    ELSE IF a = << >> THEN TRUE
    ELSE IF Head(a) = Head(b) THEN StrLess(Tail(a), Tail(b))
    ELSE CharOrd(Head(a)) < CharOrd(Head(b))

\* groupby(...) iterates its keys in ascending order
RECURSIVE SortedKeys(_)
SortedKeys(keys) ==
    IF keys = {} THEN << >>
    ELSE LET least == CHOOSE k \in keys : \A o \in keys \ {k} : StrLess(k, o)
         IN << least >> \o SortedKeys(keys \ {least})

\* sorted(list of int)
sorted(xs) == SortSeq(xs, LAMBDA a, b : a < b)

\* df['enderecoNormalizado']
EnderecoNormalizado(df, col_mappings) ==
    [i \in 1..Len(df.rows) |-> concatenate_address_for_row(df.rows[i], col_mappings)]

\* faulty variant: the empty strings are not filtered out
FilteredPositions_KeepAll(endereco) == [i \in 1..Len(endereco) |-> i]

\* df_filtered, as the positions it keeps
FilteredPositions(endereco) ==
    SelectIdx(Len(endereco), LAMBDA i : endereco[i] # << >>)

\* address_counts[address_counts > 1].index
DuplicatedAddressStrings(endereco, filtered) ==
    { endereco[i] : i \in { j \in Range(filtered) :
          Cardinality({ k \in Range(filtered) : endereco[k] = endereco[j] }) > 1 } }

\* groupby('enderecoNormalizado')['original_index_col'].apply(list)
GroupedIndicesSeries(endereco, filtered, duplicated) ==
    LET only_duplicates == SelectSeq(filtered, LAMBDA i : endereco[i] \in duplicated)
        keys == SortedKeys({ endereco[i] : i \in Range(only_duplicates) })
    IN [k \in 1..Len(keys) |->
           LET members == SelectSeq(only_duplicates, LAMBDA i : endereco[i] = keys[k])
           IN [j \in 1..Len(members) |-> members[j] - 1]]

\* faulty variant: every address string forms a group, also one that occurs once
GroupsIndicesList_NoSizeCheck(endereco, filtered) ==
    LET series == GroupedIndicesSeries(endereco, filtered,
                                       { endereco[i] : i \in Range(filtered) })
    IN [k \in 1..Len(series) |-> sorted(series[k])]

GroupsIndicesList(endereco, filtered) ==
    LET duplicated == DuplicatedAddressStrings(endereco, filtered)
        series == IF duplicated = {} THEN << >>
                  ELSE GroupedIndicesSeries(endereco, filtered, duplicated)
        kept == SelectSeq(series, LAMBDA g : Len(g) > 1)
    IN [k \in 1..Len(kept) |-> sorted(kept[k])]

\* a colour label as the text of a cell
ColorCell(color) == << color >>

\* faulty variant: the palette index wraps one place early
GroupColorColumn_WrapEarly(n, groups_indices_list) ==
    LET RECURSIVE paint(_, _)
        paint(i, col) ==
            IF i >= Len(groups_indices_list) THEN col
            ELSE LET color == GROUP_COLORS[(i % (Len(GROUP_COLORS) - 1)) + 1]
                     group == Range(groups_indices_list[i + 1])
                 IN paint(i + 1, [p \in 1..n |-> IF (p - 1) \in group
                                                 THEN ColorCell(color) ELSE col[p]])
    IN paint(0, [p \in 1..n |-> None])

\* the groupColor column: pd.NA everywhere, then one .loc assignment per group
GroupColorColumn(n, groups_indices_list) ==
    LET RECURSIVE paint(_, _)
        paint(i, col) ==
            IF i >= Len(groups_indices_list) THEN col
            ELSE LET color == GROUP_COLORS[(i % Len(GROUP_COLORS)) + 1]
                     group == Range(groups_indices_list[i + 1])
                 IN paint(i + 1, [p \in 1..n |-> IF (p - 1) \in group
                                                 THEN ColorCell(color) ELSE col[p]])
    IN paint(0, [p \in 1..n |-> None])

WorkingColumns == { "enderecoNormalizado", "original_index_col" }

\* the columns of df_all_data_with_colors without the two working columns
ColsToStore(df) ==
    LET kept == SelectSeq(df.columns, LAMBDA c : c \notin WorkingColumns)
    IN IF "groupColor" \in Range(kept) THEN kept ELSE Append(kept, "groupColor")

\* faulty variant: the rows of the groups are taken in sheet order
DfToStore_SheetOrder(df, groups_indices_list, group_color) ==
    LET order == sorted(Flatten(groups_indices_list))
        cols == ColsToStore(df)
    IN [columns |-> cols,
        rows |-> [k \in 1..Len(order) |->
                    [c \in Range(cols) |->
                        IF c = "groupColor" THEN group_color[order[k] + 1]
                        ELSE df.rows[order[k] + 1][c]]]]

\* df_grouped_ordered[cols_to_store_in_redis]
DfToStore(df, groups_indices_list, group_color) ==
    LET order == Flatten(groups_indices_list)
        cols == ColsToStore(df)
    IN [columns |-> cols,
        rows |-> [k \in 1..Len(order) |->
                    [c \in Range(cols) |->
                        IF c = "groupColor" THEN group_color[order[k] + 1]
                        ELSE df.rows[order[k] + 1][c]]]]

\* DataFrame.head(n)
head(rows, n) == SubSeq(rows, 1, IF Len(rows) < n THEN Len(rows) ELSE n)

\* list(df['groupColor'].dropna().unique())
Unique(xs) ==
    LET firsts == SelectIdx(Len(xs), LAMBDA i : \A j \in 1..(i - 1) : xs[j] # xs[i])
    IN [k \in 1..Len(firsts) |-> xs[firsts[k]]]

GroupColorsPresent(stored) ==
    LET column == [k \in 1..Len(stored.rows) |-> stored.rows[k]["groupColor"]]
    IN Unique(SelectSeq(column, LAMBDA v : v # None))

(***************************************************************************)
(* The task store's value: DataFrame.to_csv and pd.read_csv.               *)
(***************************************************************************)
\* to_csv(index=False): a header line, then one line per row; None is written
\* as the empty field
to_csv(frame) ==
    [header |-> frame.columns,
     lines |-> [k \in 1..Len(frame.rows) |->
                  [j \in 1..Len(frame.columns) |->
                      IF frame.rows[k][frame.columns[j]] = None THEN << >>
                      ELSE frame.rows[k][frame.columns[j]]]]]

\* read_csv(dtype=str, keep_default_na=False), then replace({'': None})
read_csv(csv) ==
    [columns |-> csv.header,
     rows |-> [k \in 1..Len(csv.lines) |->
                 [c \in Range(csv.header) |->
                     LET j == CHOOSE x \in DOMAIN csv.header : csv.header[x] = c
                     IN IF csv.lines[k][j] = << >> THEN None ELSE csv.lines[k][j]]]]

(***************************************************************************)
(* Uploaded sheets.  A sheet is what read_excel(dtype=str,                 *)
(* keep_default_na=False, header=1) returns: column names and rows of      *)
(* texts, the empty text for an empty cell.                                *)
(***************************************************************************)
Col(name, role) == [name |-> name, role |-> role]

LayoutStandard ==
    << Col("Proposta", "id"), Col("Logradouro", "street"), Col("Número", "rest"),
       Col("Complemento", "blank"), Col("Bairro", "rest"), Col("Cidade", "rest"),
       Col("UF", "rest"), Col("CEP", "rest") >>

LayoutAliases ==
    << Col("proposal", "id"), Col("Endereco", "street"), Col("Num", "rest"),
       Col("bairro", "rest"), Col("Municipio", "rest"), Col("Estado", "rest"),
       Col("Zip Code", "rest"), Col("Nome Cliente", "alt") >>

LayoutTwoStreets ==
    << Col("Proposta", "id"), Col("Logradouro", "street"), Col("Endereco", "alt"),
       Col("Número", "rest"), Col("Bairro", "rest"), Col("Cidade", "rest"),
       Col("UF", "rest"), Col("CEP", "rest") >>

LayoutSameName ==
    << Col("Proposta", "id"), Col("Logradouro", "alt"), Col("LOGRADOURO", "street"),
       Col("Número", "rest"), Col("Bairro", "rest"), Col("Cidade", "rest"),
       Col("UF", "rest"), Col("CEP", "rest") >>

LayoutNoCity ==
    << Col("Proposta", "id"), Col("Logradouro", "street"), Col("Número", "rest"),
       Col("Bairro", "rest"), Col("UF", "rest") >>

Kind(street, alt, rest) == [street |-> street, alt |-> alt, rest |-> rest]

KindRuaA == Kind(<<"R","u","a"," ","A">>, << >>, <<"1">>)
KindRDotA == Kind(<<"r","."," ","a">>, <<"x">>, <<"1">>)
KindB == Kind(<<"b">>, << >>, <<"1">>)
KindNoAddress == Kind(<<"-">>, <<"x">>, << >>)
KindNoStreet == Kind(<< >>, <<"e">>, <<"1">>)

RowKinds == { KindRuaA, KindRDotA, KindB, KindNoAddress, KindNoStreet }

\* the decimal digits of k as a text
RECURSIVE DigitText(_)
DigitText(k) ==
    IF k < 10 THEN << CHOOSE d \in Digits : d = ToString(k) >>
    ELSE DigitText(k \div 10) \o DigitText(k % 10)

CellOf(role, kind, i) ==
    CASE role = "id" -> << "p" >> \o DigitText(i)
      [] role = "street" -> kind.street
      [] role = "alt" -> kind.alt
      [] role = "rest" -> kind.rest
      [] OTHER -> << >>

Sheet(layout, kinds) ==
    [columns |-> [j \in 1..Len(layout) |-> layout[j].name],
     rows |-> [i \in 1..Len(kinds) |->
                 [c \in { layout[j].name : j \in 1..Len(layout) } |->
                     LET j == CHOOSE x \in 1..Len(layout) : layout[x].name = c
                     IN CellOf(layout[j].role, kinds[i], i)]]]

\* n rows over g addresses, the address of row i being q<(g - 1 - i) mod g>
CyclicKinds(n, g) ==
    [i \in 1..n |-> Kind(<<"q">> \o DigitText((g - 1) - ((i - 1) % g)), << >>, <<"1">>)]

KindSeqs(n) == UNION { [1..m -> RowKinds] : m \in 0..n }

EnumeratedSheets ==
    { Sheet(layout, kinds) :
        layout \in { LayoutAliases, LayoutTwoStreets, LayoutSameName },
        kinds \in KindSeqs(MaxRows) }

ManyGroupSheets ==
    { Sheet(LayoutStandard, CyclicKinds(2 * g, g)) : g \in 1..MaxPairs }

LongSheet == Sheet(LayoutStandard, CyclicKinds(PREVIEW_DATA_ROWS + 2, 2))

CoreSheets == EnumeratedSheets \cup ManyGroupSheets \cup { LongSheet }

NoSheet == [columns |-> << >>, rows |-> << >>]

ServiceSheets ==
    { Sheet(LayoutStandard, << KindRuaA, KindRDotA, KindB >>),
      Sheet(LayoutAliases, << KindRuaA, KindB >>),
      Sheet(LayoutStandard, << KindNoAddress, KindNoAddress >>),
      Sheet(LayoutTwoStreets, << KindNoStreet, KindNoStreet >>),
      Sheet(LayoutNoCity, << KindRuaA, KindRuaA >>),
      Sheet(LayoutStandard, << >>),
      NoSheet }

\* the uploads of the service specification: a readable workbook, or a request
\* refused before the workbook is processed
Upload(file, sheet) == [file |-> file, sheet |-> sheet]

ServiceRequests ==
    { Upload("xlsx", sheet) : sheet \in ServiceSheets }
    \cup { Upload("xls", Sheet(LayoutStandard, << KindB, KindB >>)) }
    \cup { Upload(file, NoSheet) : file \in { "missing", "noname", "badext", "unreadable" } }

\* df.replace({'': None}, inplace=True)
ReplaceEmptyByNone(frame) ==
    [columns |-> frame.columns,
     rows |-> [i \in 1..Len(frame.rows) |->
                 [c \in DOMAIN frame.rows[i] |->
                     IF frame.rows[i][c] = << >> THEN None ELSE frame.rows[i][c]]]]

\* DataFrame.empty
IsEmptyFrame(frame) == Len(frame.rows) = 0 \/ Len(frame.columns) = 0

(***************************************************************************)
(* core_processing_logic_and_prepare_output                                *)
(***************************************************************************)
\* faulty variant: the key is built without the uuid
TaskId_NoUuid(prefix, hex) == [prefix |-> prefix, hex |-> 0 * hex]

TaskId(prefix, hex) == [prefix |-> prefix, hex |-> hex]

NoTask == TaskId("", 0)

NoMappings == [key \in {} |-> NoCol]

NoRun ==
    [phase |-> "none", df |-> NoSheet, col_mappings |-> NoMappings,
     missing_mapped_cols |-> << >>, endereco |-> << >>,
     groups_indices_list |-> << >>, group_color |-> << >>,
     df_to_store |-> NoSheet, task_id |-> NoTask]

\* faulty variant: Cidade and CEP are not among the required fields
MissingMappedCols_FourFields(col_mappings) ==
    SelectSeq(<< "Logradouro", "Número", "Bairro", "UF" >>,
              LAMBDA std_name : std_name \notin DOMAIN col_mappings)

MissingMappedCols(col_mappings) ==
    SelectSeq(required_address_cols, LAMBDA std_name : std_name \notin DOMAIN col_mappings)

\* the ValueError of app.py:119-121
MissingColumnsError(df, col_mappings) ==
    With(MissingMappedCols(col_mappings), LAMBDA missing :
        [raised |-> TRUE,
         run |-> [NoRun EXCEPT !.phase = "ValueError", !.df = df,
                               !.col_mappings = col_mappings,
                               !.missing_mapped_cols = missing],
         body |-> [message |-> "Colunas essenciais não encontradas ou não mapeadas corretamente",
                   missing |-> missing,
                   examples |-> [k \in Range(missing) |-> EntryOf(k).variations[1]]],
         draws |-> 0, write |-> FALSE, key |-> NoTask, value |-> to_csv(NoSheet)])

\* the early return of app.py:132-137
NoValidRowsResult(df, col_mappings, endereco, uuid) ==
    [raised |-> FALSE,
     run |-> [NoRun EXCEPT !.phase = "no_valid_rows", !.df = df,
                           !.col_mappings = col_mappings, !.endereco = endereco,
                           !.task_id = TaskId("", uuid)],
     body |-> [task_id |-> TaskId("", uuid), preview_data |-> << >>,
               total_grouped_items |-> 0, total_groups |-> 0,
               group_colors_present |-> << >>],
     draws |-> 1, write |-> FALSE, key |-> NoTask, value |-> to_csv(NoSheet)]

\* app.py:139-228
GroupedResult(df, col_mappings, endereco, filtered, uuid, setex_ok) ==
    With(GroupsIndicesList(endereco, filtered), LAMBDA groups_indices_list :
    With(GroupColorColumn(Len(df.rows), groups_indices_list), LAMBDA group_color :
    With(DfToStore(df, groups_indices_list, group_color), LAMBDA df_to_store_redis :
    With(IsEmptyFrame(df_to_store_redis), LAMBDA empty :
        [raised |-> FALSE,
         run |-> [phase |-> "processed", df |-> df, col_mappings |-> col_mappings,
                  missing_mapped_cols |-> << >>, endereco |-> endereco,
                  groups_indices_list |-> groups_indices_list,
                  group_color |-> group_color,
                  df_to_store |-> df_to_store_redis,
                  task_id |-> TaskId("task:", uuid)],
         body |-> [task_id |-> TaskId("task:", uuid),
                   preview_data |-> IF empty THEN << >>
                                    ELSE head(df_to_store_redis.rows, PREVIEW_DATA_ROWS),
                   total_grouped_items |-> Len(df_to_store_redis.rows),
                   total_groups |-> Len(groups_indices_list),
                   group_colors_present |-> IF empty THEN << >>
                                            ELSE GroupColorsPresent(df_to_store_redis)],
         draws |-> 1,
         write |-> redis_client /\ setex_ok,
         key |-> TaskId("task:", uuid),
         value |-> to_csv(df_to_store_redis)]))))

AddressedResult(df, col_mappings, endereco, uuid, setex_ok) ==
    With(FilteredPositions(endereco), LAMBDA filtered :
        IF Len(filtered) = 0
        THEN NoValidRowsResult(df, col_mappings, endereco, uuid)
        ELSE GroupedResult(df, col_mappings, endereco, filtered, uuid, setex_ok))

MappedResult(df, col_mappings, uuid, setex_ok) ==
    IF MissingMappedCols(col_mappings) # << >>
    THEN MissingColumnsError(df, col_mappings)
    ELSE With(EnderecoNormalizado(df, col_mappings), LAMBDA endereco :
             AddressedResult(df, col_mappings, endereco, uuid, setex_ok))

core_processing_logic_and_prepare_output(df, uuid, setex_ok) ==
    With(get_col_mappings_from_df(df.columns), LAMBDA col_mappings :
        MappedResult(df, col_mappings, uuid, setex_ok))

(***************************************************************************)
(* POST /api/analyze                                                       *)
(***************************************************************************)
Reply(endpoint, status, body) == [endpoint |-> endpoint, status |-> status, body |-> body]

Message(text) == [message |-> text]

Refused(status, text) ==
    /\ resp' = Reply("analyze", status, Message(text))
    /\ run' = [NoRun EXCEPT !.phase = "refused"]
    /\ UNCHANGED <<store, issued>>

\* faulty variant: the identifier drawn before is drawn again
FreshUuid_Again == IF issued = 0 THEN issued + 1 ELSE issued

\* uuid.uuid4(): a value never drawn before
FreshUuid == issued + 1

Processed(sheet, setex_ok) ==
    \E df \in { ReplaceEmptyByNone(sheet) } :
    \E out \in { core_processing_logic_and_prepare_output(df, FreshUuid, setex_ok) } :
        /\ resp' = Reply("analyze", IF out.raised THEN 400 ELSE 200, out.body)
        /\ run' = out.run
        /\ issued' = issued + out.draws
        /\ store' = IF out.write
                    THEN [k \in DOMAIN store \cup { out.key } |->
                             IF k = out.key THEN out.value ELSE store[k]]
                    ELSE store

analyze_file_endpoint(req, setex_ok) ==
    /\ IF ~redis_client
       THEN Refused(503, "Serviço temporariamente indisponível")
       ELSE IF req.file = "missing"
       THEN Refused(400, "Nenhum arquivo enviado")
       ELSE IF req.file = "noname"
       THEN Refused(400, "Nome de arquivo vazio")
       ELSE IF req.file \notin { "xlsx", "xls" } /\ req.file # "unreadable"
       THEN Refused(400, "Formato de arquivo inválido")
       ELSE IF req.file = "unreadable"
       THEN Refused(500, "Erro interno ao processar o arquivo")
       ELSE IF IsEmptyFrame(req.sheet)
       THEN IF Len(req.sheet.columns) = 0
            THEN Refused(400, "Falha ao ler os cabeçalhos corretamente")
            ELSE Refused(400, "O arquivo enviado está vazio")
       ELSE Processed(req.sheet, setex_ok)
    /\ UNCHANGED <<redis_client, expired, dl, s_val, s_prev, applied, analyzing, downloading>>

(***************************************************************************)
(* GET /api/download_processed/<task_id>                                   *)
(***************************************************************************)
\* get: what redis_client.get did ("unavailable": no client, "raised", "returned")
NoDownload ==
    [task_id |-> NoTask, get |-> "none", df_to_download |-> NoSheet,
     col_mappings |-> NoMappings]

\* faulty variant: the key is deleted once it has been read
StoreAfterDownload_Delete(task_id) == [k \in DOMAIN store \ { task_id } |-> store[k]]

\* the handler never deletes the key it has read
StoreAfterDownload(task_id) == store

ExportCell(row, col_mappings, standard_field_name) ==
    IF /\ standard_field_name \in DOMAIN col_mappings
       /\ col_mappings[standard_field_name] \in DOMAIN row
       /\ row[col_mappings[standard_field_name]] # None
    THEN row[col_mappings[standard_field_name]]
    ELSE IF standard_field_name \in DOMAIN row /\ row[standard_field_name] # None
    THEN row[standard_field_name]
    ELSE << >>

FinalOutput(df_to_download) ==
    With(get_col_mappings_from_df(df_to_download.columns), LAMBDA col_mappings :
        [columns |-> OUTPUT_FIELD_ORDER,
         rows |-> [k \in 1..Len(df_to_download.rows) |->
                     [f \in Range(OUTPUT_FIELD_ORDER) |->
                         ExportCell(df_to_download.rows[k], col_mappings, f)]]])

download_processed_endpoint(task_id, get_ok) ==
    /\ IF ~redis_client
       THEN /\ resp' = Reply("download", 503, Message("Serviço temporariamente indisponível"))
            /\ dl' = [NoDownload EXCEPT !.task_id = task_id, !.get = "unavailable"]
            /\ store' = store
       ELSE IF ~get_ok
       THEN /\ resp' = Reply("download", 500, Message("Erro ao acessar os resultados processados"))
            /\ dl' = [NoDownload EXCEPT !.task_id = task_id, !.get = "raised"]
            /\ store' = store
       ELSE IF task_id \notin DOMAIN store
       THEN /\ resp' = Reply("download", 404, Message("Resultados não encontrados ou expirados"))
            /\ dl' = [NoDownload EXCEPT !.task_id = task_id, !.get = "returned"]
            /\ store' = store
       ELSE \E df_to_download \in { read_csv(store[task_id]) } :
               /\ resp' = Reply("download", 200, FinalOutput(df_to_download))
               /\ dl' = [task_id |-> task_id, get |-> "returned",
                         df_to_download |-> df_to_download,
                         col_mappings |-> get_col_mappings_from_df(df_to_download.columns)]
               /\ store' = StoreAfterDownload(task_id)
    /\ UNCHANGED <<redis_client, issued, expired, run, s_val, s_prev, applied,
                   analyzing, downloading>>

(***************************************************************************)
(* Redis removes a key when its time-to-live (REDIS_TASK_TTL) has elapsed. *)
(***************************************************************************)
Expire(task_id) ==
    /\ task_id \in DOMAIN store
    /\ store' = [k \in DOMAIN store \ { task_id } |-> store[k]]
    /\ expired' = expired \cup { task_id }
    /\ UNCHANGED <<redis_client, issued, run, dl, resp, s_val, s_prev, applied,
                   analyzing, downloading>>

(***************************************************************************)
(* The service: any interleaving of whole requests and expiries.           *)
(***************************************************************************)
TaskIds == { TaskId(prefix, hex) : prefix \in { "task:", "" }, hex \in 1..MaxTasks }

EmptyStore == [k \in {} |-> to_csv(NoSheet)]

NoReply == Reply("none", 0, Message(""))

(***************************************************************************)
(* Requests served concurrently: each request runs in its own thread with  *)
(* its own locals; the threads share redis_client and the Redis keyspace.  *)
(***************************************************************************)
\* the threads of the concurrent service: one per /api/analyze request, and one
\* that serves download requests one after the other (downloads only read)
Analyzers == 1..MaxTasks

Downloaders == { "downloads" }

\* what core_processing_logic_and_prepare_output has not computed yet
NoOut ==
    [raised |-> FALSE, run |-> NoRun, body |-> Message(""), draws |-> 0,
     write |-> FALSE, key |-> NoTask, value |-> to_csv(NoSheet)]

\* a request that has not arrived yet
IdleAnalysis == [pc |-> "idle", df |-> NoSheet, out |-> NoOut, reply |-> NoReply]

IdleDownload ==
    [pc |-> "idle", task_id |-> NoTask, found |-> FALSE, csv |-> to_csv(NoSheet),
     df_to_download |-> NoSheet, reply |-> NoReply]

Started(client) ==
    /\ redis_client = client
    /\ store = EmptyStore
    /\ issued = 0
    /\ expired = {}
    /\ run = NoRun
    /\ dl = NoDownload
    /\ resp = NoReply
    /\ s_val = None
    /\ s_prev = None
    /\ applied = 0
    /\ analyzing = [a \in Analyzers |-> IdleAnalysis]
    /\ downloading = [d \in Downloaders |-> IdleDownload]

Init == \E client \in BOOLEAN : Started(client)

AnalyzeRequest ==
    \E req \in ServiceRequests, setex_ok \in BOOLEAN :
        /\ issued < MaxTasks
        /\ analyze_file_endpoint(req, setex_ok)

DownloadRequest ==
    \E task_id \in TaskIds, get_ok \in BOOLEAN :
        download_processed_endpoint(task_id, get_ok)

Expiry == \E task_id \in TaskIds : Expire(task_id)

Next == AnalyzeRequest \/ DownloadRequest \/ Expiry

Spec == Init /\ [][Next]_vars

(***************************************************************************)
(* One upload on a freshly started service, then downloads of its result.  *)
(***************************************************************************)
CoreInit == Started(TRUE)

CoreAnalyze ==
    \E sheet \in CoreSheets :
        /\ issued = 0
        /\ analyze_file_endpoint(Upload("xlsx", sheet), TRUE)

CoreDownload ==
    \E task_id \in DOMAIN store : download_processed_endpoint(task_id, TRUE)

CoreNext == CoreAnalyze \/ CoreDownload

SpecCore == CoreInit /\ [][CoreNext]_vars

(***************************************************************************)
(* The concurrent service.  A handler is cut where it touches what the     *)
(* threads share: the uuid draw, redis_client.setex and redis_client.get.  *)
(* Everything between two such points works on the request's own locals.   *)
(***************************************************************************)
\* the upload of request a: 2 * a rows that form a duplicate pairs, so that
\* no two requests compute the same dataset
ConcRequest(a) == Upload("xlsx", Sheet(LayoutStandard, CyclicKinds(2 * a, a)))

ConcUnchanged == UNCHANGED <<redis_client, expired, run, dl, resp, s_val, s_prev, applied>>

\* app.py:233-265: the request arrives, the workbook is read into the local df
ConcReceive(a, req) ==
    /\ analyzing[a].pc = "idle"
    /\ req = ConcRequest(a)
    /\ analyzing' =
          [analyzing EXCEPT ![a] =
              IF ~redis_client
              THEN [@ EXCEPT !.pc = "done",
                             !.reply = Reply("analyze", 503, Message("Serviço temporariamente indisponível"))]
              ELSE IF req.file \notin { "xlsx", "xls" }
              THEN [@ EXCEPT !.pc = "done",
                             !.reply = Reply("analyze", 400, Message("Formato de arquivo inválido"))]
              ELSE IF IsEmptyFrame(req.sheet)
              THEN [@ EXCEPT !.pc = "done",
                             !.reply = Reply("analyze", 400, Message("O arquivo enviado está vazio"))]
              ELSE [@ EXCEPT !.pc = "core", !.df = ReplaceEmptyByNone(req.sheet)]]
    /\ UNCHANGED <<store, issued, downloading>>
    /\ ConcUnchanged

\* app.py:112-194: the grouping on the local df, up to the uuid draw; a
\* ValueError is answered at app.py:277-279
ConcCore(a) ==
    /\ analyzing[a].pc = "core"
    /\ \E out \in { core_processing_logic_and_prepare_output(analyzing[a].df, FreshUuid,
                                                              TRUE) } :
          /\ issued' = issued + out.draws
          /\ analyzing' =
                [analyzing EXCEPT ![a] =
                    IF out.raised
                    THEN [@ EXCEPT !.pc = "done", !.out = out,
                                   !.reply = Reply("analyze", 400, out.body)]
                    ELSE IF out.run.phase = "no_valid_rows"
                    THEN [@ EXCEPT !.pc = "respond", !.out = out]
                    ELSE [@ EXCEPT !.pc = "setex", !.out = out]]
    /\ UNCHANGED <<store, downloading>>
    /\ ConcUnchanged

\* app.py:196-207: redis_client.setex(task_id, REDIS_TASK_TTL, csv_string), which
\* writes the key or raises; the exception is logged and the request goes on
ConcSetex(a, setex_ok) ==
    /\ analyzing[a].pc = "setex"
    /\ store' = IF analyzing[a].out.write /\ setex_ok
                THEN [k \in DOMAIN store \cup { analyzing[a].out.key } |->
                         IF k = analyzing[a].out.key THEN analyzing[a].out.value
                         ELSE store[k]]
                ELSE store
    /\ analyzing' = [analyzing EXCEPT ![a].pc = "respond"]
    /\ UNCHANGED <<issued, downloading>>
    /\ ConcUnchanged

\* app.py:209-228, 268: the preview and the 200 response
ConcRespond(a) ==
    /\ analyzing[a].pc = "respond"
    /\ analyzing' = [analyzing EXCEPT ![a].pc = "done",
                                      ![a].reply = Reply("analyze", 200, analyzing[a].out.body)]
    /\ UNCHANGED <<store, issued, downloading>>
    /\ ConcUnchanged

\* app.py:286-295: redis_client.get(task_id)
ConcGet(d, task_id, get_ok) ==
    /\ downloading[d].pc \in { "idle", "done" }
    /\ downloading' =
          [downloading EXCEPT ![d] =
              IF ~redis_client
              THEN [IdleDownload EXCEPT !.pc = "done", !.task_id = task_id,
                             !.reply = Reply("download", 503, Message("Serviço temporariamente indisponível"))]
              ELSE IF ~get_ok
              THEN [IdleDownload EXCEPT !.pc = "done", !.task_id = task_id,
                             !.reply = Reply("download", 500, Message("Erro ao acessar os resultados processados"))]
              ELSE IF task_id \notin DOMAIN store
              THEN [IdleDownload EXCEPT !.pc = "got", !.task_id = task_id, !.found = FALSE]
              ELSE [IdleDownload EXCEPT !.pc = "got", !.task_id = task_id, !.found = TRUE,
                             !.csv = store[task_id]]]
    /\ UNCHANGED <<store, issued, analyzing>>
    /\ ConcUnchanged

\* app.py:297-351: not-found, or the export of what get returned
ConcExport(d) ==
    /\ downloading[d].pc = "got"
    /\ downloading' =
          [downloading EXCEPT ![d] =
              IF ~downloading[d].found
              THEN [@ EXCEPT !.pc = "done",
                             !.reply = Reply("download", 404, Message("Resultados não encontrados ou expirados"))]
              ELSE With(read_csv(downloading[d].csv), LAMBDA df_to_download :
                       [@ EXCEPT !.pc = "done", !.df_to_download = df_to_download,
                                 !.reply = Reply("download", 200, FinalOutput(df_to_download))])]
    /\ UNCHANGED <<store, issued, analyzing>>
    /\ ConcUnchanged

ConcInit == \E client \in BOOLEAN : Started(client)

ConcAnalyze ==
    \E a \in Analyzers :
        \/ \E req \in { ConcRequest(a) } : ConcReceive(a, req)
        \/ ConcCore(a)
        \/ \E setex_ok \in BOOLEAN : ConcSetex(a, setex_ok)
        \/ ConcRespond(a)

ConcDownload ==
    \E d \in Downloaders :
        \/ \E task_id \in TaskIds, get_ok \in BOOLEAN : ConcGet(d, task_id, get_ok)
        \/ ConcExport(d)

ConcNext == ConcAnalyze \/ ConcDownload

SpecConc == ConcInit /\ [][ConcNext]_vars

(***************************************************************************)
(* Normalizer harness: the function applied repeatedly to one input.       *)
(***************************************************************************)
NormAlphabet == { "r", "u", "a", ".", "-", " " }

RECURSIVE StringsUpTo(_, _)
StringsUpTo(A, n) ==
    IF n = 0 THEN { << >> }
    ELSE LET shorter == StringsUpTo(A, n - 1)
         IN shorter \cup { Append(s, c) : s \in shorter, c \in A }

AddressWords ==
    { None,
      <<"R","u","a"," ","S","ã","o">>,
      <<"a","v","e","n","i","d","a">>, <<"a","v",".","1">>,
      <<"n","ú","m","e","r","o"," ","1">>, <<"n","°","1">>, <<"n",".","1">>,
      <<"a","p","a","r","t","a","m","e","n","t","o">>, <<"a","p","t","o">>,
      <<"a","p",".","2">>,
      <<"l","o","t","e","\t","q","u","a","d","r","a">>,
      <<"b","l","o","c","o"," "," ","c","a","s","a">>,
      <<"s","-","a","o">>, <<"c","a","s","_","a">> }

NormInputs == StringsUpTo(NormAlphabet, MaxLen) \cup AddressWords

NormInit ==
    /\ s_val \in NormInputs
    /\ s_prev = None
    /\ applied = 0
    /\ redis_client = FALSE
    /\ store = EmptyStore
    /\ issued = 0
    /\ expired = {}
    /\ run = NoRun
    /\ dl = NoDownload
    /\ resp = NoReply
    /\ analyzing = [a \in Analyzers |-> IdleAnalysis]
    /\ downloading = [d \in Downloaders |-> IdleDownload]

Normalize ==
    /\ applied < 2
    /\ s_prev' = s_val
    /\ s_val' = normalize_address_val(s_val)
    /\ applied' = applied + 1
    /\ UNCHANGED <<redis_client, store, issued, expired, run, dl, resp, analyzing, downloading>>

NormNext == Normalize

SpecNorm == NormInit /\ [][NormNext]_vars

(***************************************************************************)
(* Properties.                                                             *)
(***************************************************************************)
Min(a, b) == IF a < b THEN a ELSE b

\* the last request was an upload that reached the grouping engine
Grouped == run.phase \in { "processed", "no_valid_rows" }

\* positions (1-based) of the rows of the groups, in result order
ResultOrder == Flatten(run.groups_indices_list)

InSomeGroup(label) ==
    \E g \in DOMAIN run.groups_indices_list : label \in Range(run.groups_indices_list[g])

\* this step is a request to /api/analyze (a repeated identical request leaves
\* every variable as it was)
AnalyzeStep == resp'.endpoint = "analyze" /\ <<run', resp', issued'>> # <<run, resp, issued>>

\* this step is a request to /api/download_processed
DownloadStep == resp'.endpoint = "download" /\ <<dl', resp'>> # <<dl, resp>>

\* C1: the groups are exactly the classes of rows with equal non-empty
\* canonical address string that hold at least 2 rows: size >= 2, one string per
\* group, distinct strings for distinct groups, no row in two groups, and every
\* row whose non-empty string occurs twice or more is in a group.
C1_GroupsAreDuplicateClasses ==
    Grouped =>
        LET groups == run.groups_indices_list
            e == run.endereco
        IN /\ \A g \in DOMAIN groups :
                /\ Len(groups[g]) >= 2
                /\ \A a, b \in DOMAIN groups[g] : a # b => groups[g][a] # groups[g][b]
                /\ \A a \in DOMAIN groups[g] :
                      /\ groups[g][a] + 1 \in DOMAIN e
                      /\ e[groups[g][a] + 1] # << >>
                      /\ e[groups[g][a] + 1] = e[groups[g][1] + 1]
           /\ \A g, h \in DOMAIN groups :
                g # h => /\ Range(groups[g]) \cap Range(groups[h]) = {}
                         /\ e[groups[g][1] + 1] # e[groups[h][1] + 1]
           /\ \A p, q \in DOMAIN e :
                (p # q /\ e[p] # << >> /\ e[p] = e[q]) => InSomeGroup(p - 1)

C1_Witness ==
    /\ run.phase = "processed"
    /\ Len(run.groups_indices_list) >= 1
    /\ \E p \in DOMAIN run.endereco : run.endereco[p] = << >>
    /\ \E p \in DOMAIN run.endereco : run.endereco[p] # << >> /\ ~InSomeGroup(p - 1)
    /\ \E g \in DOMAIN run.groups_indices_list :
          LET group == run.groups_indices_list[g]
          IN run.df.rows[group[1] + 1][run.col_mappings["Logradouro"]]
                # run.df.rows[group[2] + 1][run.col_mappings["Logradouro"]]

\* C2: after a successful Analyze the group at rank i has the colour
\* GROUP_COLORS[i mod 5] on every one of its rows, ranks i and i + 5 share a
\* colour, and group_colors_present holds min(total_groups, 5) distinct colours.
C2_ColorsCycle ==
    (resp.endpoint = "analyze" /\ resp.status = 200) =>
        LET groups == run.groups_indices_list
            present == resp.body.group_colors_present
        IN /\ \A g \in DOMAIN groups : \A a \in DOMAIN groups[g] :
                run.group_color[groups[g][a] + 1] = << GROUP_COLORS[((g - 1) % 5) + 1] >>
           /\ \A k \in DOMAIN run.df_to_store.rows :
                run.df_to_store.rows[k]["groupColor"] = run.group_color[ResultOrder[k] + 1]
           /\ \A g, h \in DOMAIN groups :
                h = g + 5 => run.group_color[groups[g][1] + 1] = run.group_color[groups[h][1] + 1]
           /\ resp.body.total_groups = Len(groups)
           /\ Cardinality(Range(present)) = Len(present)
           /\ Len(present) = Min(resp.body.total_groups, 5)

C2_Witness ==
    /\ resp.endpoint = "analyze"
    /\ resp.status = 200
    /\ resp.body.total_groups = 6
    /\ Len(resp.body.group_colors_present) = 5
    /\ run.group_color[run.groups_indices_list[6][1] + 1] = << "group-color-1" >>

\* the cell that tells the rows of a sheet apart: its first column
RowId(row) == row[run.df.columns[1]]

NoAddressIds == { RowId(run.df.rows[p]) : p \in { q \in DOMAIN run.endereco : run.endereco[q] = << >> } }

\* C3: a row whose canonical address string is empty never appears in the
\* Task Result (stored dataset or preview) and is never given a group colour,
\* also when several rows have an empty string.
C3_NoAddressRowsExcluded ==
    Grouped =>
        /\ \A p \in DOMAIN run.endereco :
              run.endereco[p] = << >> =>
                 /\ run.phase = "processed" => run.group_color[p] = None
                 /\ ~InSomeGroup(p - 1)
        /\ \A k \in DOMAIN run.df_to_store.rows :
              RowId(run.df_to_store.rows[k]) \notin NoAddressIds
        /\ run.task_id \in DOMAIN store =>
              \A k \in DOMAIN store[run.task_id].lines :
                  store[run.task_id].lines[k][1] \notin NoAddressIds
        /\ resp.endpoint = "analyze" =>
              \A k \in DOMAIN resp.body.preview_data :
                  RowId(resp.body.preview_data[k]) \notin NoAddressIds

C3_Witness ==
    /\ run.phase = "processed"
    /\ resp.endpoint = "analyze"
    /\ Cardinality(NoAddressIds) >= 2
    /\ Len(resp.body.preview_data) >= 2
    /\ run.task_id \in DOMAIN store

\* the required address fields without a column in the Field Mapping
UnmappedRequired(col_mappings) ==
    { f \in Range(required_address_cols) : f \notin DOMAIN col_mappings }

\* C4: when a required address field has no column in the Field Mapping built
\* for an upload, Analyze answers 400 with a message naming every missing field
\* (and an example alias for each), forms no group and writes nothing: the
\* store after the request is the store before it.
C4_MissingColumnsRejected ==
    [][ (AnalyzeStep /\ run'.phase # "refused"
            /\ UnmappedRequired(run'.col_mappings) # {})
        => /\ run'.phase = "ValueError"
           /\ resp'.status = 400
           /\ Range(resp'.body.missing) = UnmappedRequired(run'.col_mappings)
           /\ DOMAIN resp'.body.examples = UnmappedRequired(run'.col_mappings)
           /\ run'.groups_indices_list = << >>
           /\ issued' = issued
           /\ store' = store ]_vars

C4_Witness ==
    /\ run.phase = "ValueError"
    /\ resp.endpoint = "analyze"
    /\ resp.body.missing = << "Cidade", "CEP" >>
    /\ store # EmptyStore

\* C5: whenever Analyze answers 200 with a task_id, the store holds the Task
\* Result under that task_id at the moment of the response.
C5_ResultsNeverDropped ==
    [][ (AnalyzeStep /\ resp'.status = 200)
        => /\ resp'.body.task_id \in DOMAIN store'
           /\ read_csv(store'[resp'.body.task_id]) = run'.df_to_store ]_vars

\* C6 as stated: a successful Download removes the entry, so that a second
\* Download of the same id finds nothing.
C6_DownloadRemovesEntry ==
    [][ (DownloadStep /\ resp'.status = 200) => dl'.task_id \notin DOMAIN store' ]_vars

\* C6 as amended: the store is empty at startup, an entry appears only during
\* an Analyze, under the task id that Analyze generated, an entry disappears
\* only by expiry, and a Download leaves the store as it is; a Download is
\* answered not-found only when the entry is not there, so a Download repeated
\* before expiry finds the same entry again.
C6_EntriesLeaveOnlyByExpiry ==
    /\ store = EmptyStore
    /\ [][ /\ \A k \in DOMAIN store' \ DOMAIN store :
                AnalyzeStep /\ run'.task_id = k
           /\ \A k \in DOMAIN store \ DOMAIN store' : k \in expired' \ expired
           /\ \A k \in DOMAIN store \cap DOMAIN store' : store'[k] = store[k]
           /\ DownloadStep => store' = store
           /\ (DownloadStep /\ resp'.status = 404) => dl'.task_id \notin DOMAIN store
           /\ (DownloadStep /\ resp'.status = 200) =>
                 dl'.df_to_download = read_csv(store'[dl'.task_id]) ]_vars

C6_Witness ==
    /\ resp.endpoint = "download"
    /\ resp.status = 200
    /\ dl.task_id \in DOMAIN store
    /\ Len(dl.df_to_download.rows) >= 2
    /\ expired # {}

\* C7: a Download whose lookup finds no entry for the task id (never issued, or
\* expired) is answered not-found and leaves the store unchanged; an expired
\* task id never has an entry again, and only issued "task:" ids ever have one.
C7_MissingIsNotFoundForever ==
    /\ [](/\ expired \cap DOMAIN store = {}
          /\ \A k \in DOMAIN store : k.prefix = "task:" /\ k.hex \in 1..issued)
    /\ [][ (DownloadStep /\ dl'.get = "returned" /\ dl'.task_id \notin DOMAIN store)
           => (resp'.status = 404 /\ store' = store) ]_vars

C7_Witness ==
    /\ resp.endpoint = "download"
    /\ resp.status = 404
    /\ dl.task_id \in expired
    /\ issued = MaxTasks
    /\ store # EmptyStore

\* C8: the Task Result is the concatenation of the groups in rank order, each
\* group's rows in ascending original index; the stored dataset holds these
\* rows (without the working columns, each with a non-null colour), the preview
\* is its first min(200, N) rows, and total_grouped_items is the sum of the
\* group sizes.
C8_ResultIsGroupMajor ==
    run.phase = "processed" =>
        LET groups == run.groups_indices_list
            rows == run.df_to_store.rows
        IN /\ \A g \in DOMAIN groups : \A a, b \in DOMAIN groups[g] :
                a < b => groups[g][a] < groups[g][b]
           /\ Len(rows) = Len(ResultOrder)
           /\ \A k \in DOMAIN rows :
                /\ \A c \in Range(run.df.columns) : rows[k][c] = run.df.rows[ResultOrder[k] + 1][c]
                /\ rows[k]["groupColor"] # None
                /\ DOMAIN rows[k] \cap WorkingColumns = {}
           /\ run.task_id \in DOMAIN store => read_csv(store[run.task_id]).rows = rows
           /\ resp.endpoint = "analyze" =>
                /\ resp.body.preview_data = SubSeq(rows, 1, Min(200, Len(rows)))
                /\ resp.body.total_grouped_items = Len(ResultOrder)

C8_Witness ==
    /\ run.phase = "processed"
    /\ resp.endpoint = "analyze"
    /\ Len(run.groups_indices_list) = 2
    /\ resp.body.total_grouped_items = 202
    /\ Len(resp.body.preview_data) = 200
    /\ run.task_id \in DOMAIN store

\* col is the field's own name or one of its aliases, as the reconciler compares them
Recognized(col, field) ==
    \/ LowerStripped(col) = LowerStripped(field)
    \/ \E v \in Range(EntryOf(field).variations) : LowerStripped(col) = LowerStripped(v)

\* C10: the export has the eleven fixed headers and one row per stored row, in
\* order, and a standard field is non-empty in an exported row whenever the
\* stored row has a non-empty value under a column recognized for that field.
C10_ExportKeepsRecognizedValues ==
    (resp.endpoint = "download" /\ resp.status = 200) =>
        /\ resp.body.columns = OUTPUT_FIELD_ORDER
        /\ Len(resp.body.rows) = Len(dl.df_to_download.rows)
        /\ \A k \in DOMAIN resp.body.rows : \A f \in Range(OUTPUT_FIELD_ORDER) :
              (\E c \in Range(dl.df_to_download.columns) :
                  Recognized(c, f) /\ dl.df_to_download.rows[k][c] # None)
              => resp.body.rows[k][f] # << >>

\* the analysis has generated its task id
Issued(a) == analyzing[a].out.run.phase \in { "processed", "no_valid_rows" }

TaskOf(a) == analyzing[a].out.run.task_id

\* the dataset the analysis computed from its own sheet
DatasetOf(a) == analyzing[a].out.run.df_to_store

\* C11: in every interleaving of the steps of concurrent Analyze and Download
\* requests, the task ids of two analyses differ, a step changes a store entry
\* only as the setex of the one analysis that generated that key, every entry
\* holds the dataset of that analysis, and a Download answered 200 read and
\* exports exactly the dataset of the analysis that generated its task id.
C11_RequestsDoNotInterfere ==
    /\ [](/\ \A a, b \in Analyzers :
                (a # b /\ Issued(a) /\ Issued(b)) => TaskOf(a) # TaskOf(b)
          /\ \A k \in DOMAIN store :
                /\ \E a \in Analyzers : Issued(a) /\ TaskOf(a) = k
                /\ \A a \in Analyzers :
                      (Issued(a) /\ TaskOf(a) = k) => read_csv(store[k]) = DatasetOf(a)
          /\ \A d \in Downloaders :
                (downloading[d].pc = "done" /\ downloading[d].reply.status = 200) =>
                    /\ \E a \in Analyzers : Issued(a) /\ TaskOf(a) = downloading[d].task_id
                    /\ \A a \in Analyzers :
                          (Issued(a) /\ TaskOf(a) = downloading[d].task_id) =>
                              /\ downloading[d].df_to_download = DatasetOf(a)
                              /\ downloading[d].reply.body = FinalOutput(DatasetOf(a)))
    /\ [][ \A k \in DOMAIN store \cup DOMAIN store' :
              (k \notin DOMAIN store \/ k \notin DOMAIN store' \/ store'[k] # store[k]) =>
                  /\ k \in DOMAIN store'
                  /\ \E a \in Analyzers :
                        /\ analyzing[a].pc = "setex"
                        /\ analyzing'[a].pc = "respond"
                        /\ TaskOf(a) = k
                        /\ \A b \in Analyzers \ { a } : analyzing'[b] = analyzing[b] ]_vars

C11_Witness ==
    \E d \in Downloaders : \E a, b \in Analyzers :
        /\ a # b
        /\ downloading[d].pc = "done"
        /\ downloading[d].reply.status = 200
        /\ Len(downloading[d].reply.body.rows) >= 2
        /\ Issued(a)
        /\ TaskOf(a) = downloading[d].task_id
        /\ analyzing[b].pc = "respond"
        /\ TaskOf(b) \in DOMAIN store
        /\ DatasetOf(b) # DatasetOf(a)

\* C9: normalize_address_val is idempotent: a second call returns what the
\* first call returned, for every input string.
C9_NormalizeIdempotent == applied = 2 => s_val = s_prev

====
